---- MODULE Spec2Model ----
(***************************************************************************)
(* Model of the bridge measurement and verification harness:               *)
(*   tools/bridge_latency_bench.py  (latency benchmark)                    *)
(*   tools/bridge_smoke_test.py     (behavioural smoke test)               *)
(*                                                                         *)
(* Spec     : one run of either tool against a nondeterministic subject    *)
(*            process (the bridge) and filesystem.                         *)
(* SpecAgg  : the percentile aggregator (sorted / percentile / summarize)  *)
(*            applied to every sample list within the bounds.              *)
(***************************************************************************)
EXTENDS Integers, Sequences, FiniteSets, TLC

VARIABLES
  values_us,   \* SpecAgg: the argument handed to summarize
  row,         \* SpecAgg: the SummaryRow summarize returned, or NoRow
  tool,        \* "bench" or "smoke": which main() runs
  args,        \* parse_args(): the run's configuration
  bin_exists,  \* the bridge binary path existed when main() started
  build_runs,  \* how many times `make build-bridge` was run
  res,         \* ensure_bridge_binary: what subprocess.run returned, or NoRes
  td,          \* the TemporaryDirectory exists
  td_made,     \* history: the TemporaryDirectory was created in this run
  fs,          \* the socket paths that exist inside the directory
  listener,    \* the downstream socket: "none", "open", "bound", "closed"
  lq,          \* datagrams queued on the listener
  rq,          \* datagrams queued on the subject's receiver socket
  bridge,      \* the subject process (Popen handle and process state)
  pc,          \* position of main()
  i,           \* loop index of the running driver / smoke case number
  direct,      \* values of bench_direct_dgram
  bridged,     \* values of bench_bridge_dgram
  recorded,    \* history: the loop indices whose sample was recorded
  sent,        \* history: every datagram the harness sent, in order
  elapsed,     \* wait_for_socket: polling intervals slept so far (0 outside the call)
  ready,       \* history: wait_for_socket returned True ("yes") or False ("no")
  got,         \* the datagram received for the current index, or NoLine
  stdout_out,  \* lines printed to standard output
  stderr_out,  \* lines printed to standard error
  rows,        \* main(): the two SummaryRows
  ratio,       \* main(): the p95 overhead ratio
  json_written,\* main(): the report file was written
  body,        \* the outcome the body of main() determined
  teardown_exc,\* the exception raised inside a finally block, if any
  outcome      \* the outcome of the run, once pc = "done"

aggvars == <<values_us, row>>

mainvars == <<tool, args, bin_exists, build_runs, res, td, td_made, fs, listener, lq, rq,
              bridge, pc, i, direct, bridged, recorded, sent, elapsed, ready, got,
              stdout_out, stderr_out, rows, ratio, json_written, body, teardown_exc,
              outcome>>

vars == <<aggvars, mainvars>>

----------------------------------------------------------------------------
(* Bounds *)

\* longest sample list handed to summarize in SpecAgg
MaxSamples == 7

\* largest sample value (in microseconds) handed to summarize in SpecAgg
MaxValue == 2

SampleValues == 0..MaxValue

\* largest round-trip latency (in microseconds) a driver measures in Spec
MaxLatency == 1

Latencies == 0..MaxLatency

----------------------------------------------------------------------------
(* Percentile aggregator: bridge_latency_bench.py lines 55-77 *)

RECURSIVE SeqsUpTo(_)
SeqsUpTo(n) ==
  IF n = 0 THEN {<<>>}
  ELSE LET shorter == SeqsUpTo(n - 1)
       IN shorter \cup {Append(s, v) : s \in {t \in shorter : Len(t) = n - 1},
                                         v \in SampleValues}

\* insert v into the ascending list s, after the elements <= v
RECURSIVE insert(_, _)
insert(s, v) ==
  IF s = <<>> THEN <<v>>
  ELSE IF v < Head(s) THEN <<v>> \o s
  ELSE <<Head(s)>> \o insert(Tail(s), v)

\* Python's sorted(): the same elements, ascending
RECURSIVE sorted(_)
sorted(s) ==
  IF s = <<>> THEN <<>>
  ELSE insert(sorted(SubSeq(s, 1, Len(s) - 1)), s[Len(s)])

\* Python's round() of the fraction num/den (den > 0, num >= 0):
\* to the nearest integer, a tie going to the even neighbour. The float
\* product (p / 100.0) * (n - 1) rounds to the same integer as the exact
\* fraction p * (n - 1) / 100 for p in {50, 90, 95, 99} and every n < 3000.
py_round(num, den) ==
  LET q == num \div den
      r == num % den
  IN IF 2 * r < den THEN q
     ELSE IF 2 * r > den THEN q + 1
     ELSE IF q % 2 = 0 THEN q ELSE q + 1

py_min(a, b) == IF a <= b THEN a ELSE b

py_max(a, b) == IF a >= b THEN a ELSE b

\* a mutant of percentile: the index truncated instead of rounded
percentile_truncating(values, p) ==
  IF values = <<>> THEN 0
  ELSE IF Len(values) = 1 THEN values[1]
  ELSE LET idx == (p * (Len(values) - 1)) \div 100
       IN values[py_max(0, py_min(idx, Len(values) - 1)) + 1]

\* a mutant of percentile: the empty list is not special-cased and the
\* call yields the error marker -1 in place of the IndexError
percentile_no_empty_case(values, p) ==
  IF values = <<>> THEN -1
  ELSE IF Len(values) = 1 THEN values[1]
  ELSE LET idx == py_round(p * (Len(values) - 1), 100)
       IN values[py_max(0, py_min(idx, Len(values) - 1)) + 1]

\* percentile(values, p): values[int(round(p/100 * (n-1)))], clamped
percentile(values, p) ==
  IF values = <<>> THEN 0
  ELSE IF Len(values) = 1 THEN values[1]
  ELSE LET idx == py_round(p * (Len(values) - 1), 100)
       IN values[py_max(0, py_min(idx, Len(values) - 1)) + 1]

RECURSIVE SumSeq(_)
SumSeq(s) == IF s = <<>> THEN 0 ELSE Head(s) + SumSeq(Tail(s))

\* statistics.fmean as the exact fraction sum/n
fmean(s) == [num |-> SumSeq(s), den |-> Len(s)]

Zero == [num |-> 0, den |-> 1]

\* a mutant of summarize: the argument is used as given, not sorted
summarize_unsorted(name, vs) ==
  [ name    |-> name,
    count   |-> Len(vs),
    min_us  |-> IF vs # <<>> THEN vs[1] ELSE 0,
    p50_us  |-> percentile(vs, 50),
    p90_us  |-> percentile(vs, 90),
    p95_us  |-> percentile(vs, 95),
    p99_us  |-> percentile(vs, 99),
    max_us  |-> IF vs # <<>> THEN vs[Len(vs)] ELSE 0,
    mean_us |-> IF vs # <<>> THEN fmean(vs) ELSE Zero ]

summarize(name, vs) ==
  LET sorted_values == sorted(vs)
  IN [ name    |-> name,
       count   |-> Len(sorted_values),
       min_us  |-> IF sorted_values # <<>> THEN sorted_values[1] ELSE 0,
       p50_us  |-> percentile(sorted_values, 50),
       p90_us  |-> percentile(sorted_values, 90),
       p95_us  |-> percentile(sorted_values, 95),
       p99_us  |-> percentile(sorted_values, 99),
       max_us  |-> IF sorted_values # <<>> THEN sorted_values[Len(sorted_values)] ELSE 0,
       mean_us |-> IF sorted_values # <<>> THEN fmean(sorted_values) ELSE Zero ]

NoRow == [name |-> "none"]

----------------------------------------------------------------------------
(* The run: configuration, outcomes, the subject process *)

\* largest --iterations and --warmup value drawn (the smallest is -1)
MaxCount == 1

\* largest --timeout-s drawn, in polling intervals of wait_for_socket
MaxTimeout == 1

Counts == -1..MaxCount

Timeouts == 0..MaxTimeout

\* exit status of the interpreter when main() raises
UncaughtExitStatus == 1

receiver_sock == "kar.sock"

seq_dgram_sock == "seqd.sock.dgram"

seq_stream_sock == "seqd.sock"

NoOutcome == [kind |-> "none", code |-> 0, exc |-> "", msg |-> "", at |-> 0, err |-> ""]

Return(code) == [NoOutcome EXCEPT !.kind = "return", !.code = code]

Raise(exc, msg) == [NoOutcome EXCEPT !.kind = "raise", !.exc = exc, !.msg = msg]

RaiseAt(exc, msg, idx) == [Raise(exc, msg) EXCEPT !.at = idx]

\* raise SystemExit(main()): the process exit status of an outcome
exit_status(o) == IF o.kind = "return" THEN o.code ELSE UncaughtExitStatus

\* ensure_bridge_binary(path, build_if_missing), given whether the path
\* exists and what `make build-bridge` would do (its return code and
\* whether the path exists afterwards): the outcome, and whether make ran
ensure_bridge_binary_always_builds(exists, build_if_missing, mk) ==
  IF exists THEN [out |-> Return(0), built |-> FALSE]
  ELSE IF mk.returncode # 0
    THEN [out |-> Raise("RuntimeError", "failed to build bridge"), built |-> TRUE]
  ELSE IF ~mk.exists_after
    THEN [out |-> Raise("FileNotFoundError", "bridge binary not found after build"),
          built |-> TRUE]
  ELSE [out |-> Return(0), built |-> TRUE]

ensure_bridge_binary(exists, build_if_missing, mk) ==
  IF exists THEN [out |-> Return(0), built |-> FALSE]
  ELSE IF ~build_if_missing
    THEN [out |-> Raise("FileNotFoundError", "bridge binary not found"), built |-> FALSE]
  ELSE IF mk.returncode # 0
    THEN [out |-> Raise("RuntimeError", "failed to build bridge"), built |-> TRUE]
  ELSE IF ~mk.exists_after
    THEN [out |-> Raise("FileNotFoundError", "bridge binary not found after build"),
          built |-> TRUE]
  ELSE [out |-> Return(0), built |-> TRUE]

MakeResults == [returncode : {0, 2}, exists_after : BOOLEAN]

NoRes == [returncode |-> -1, exists_after |-> FALSE]

NoLine == <<>>

NoBridge == [state |-> "none", sigterm |-> FALSE, sigkill |-> FALSE,
             drained |-> FALSE, stderr |-> "", argv |-> <<>>, emitted |-> FALSE]

\* Popen.terminate(): polls first (reaping a process that has exited),
\* and signals SIGTERM only a process that is still running
terminate(b) ==
  IF b.state = "exited" THEN [b EXCEPT !.state = "reaped"]
  ELSE IF b.state = "running" THEN [b EXCEPT !.sigterm = TRUE]
  ELSE b

\* a mutant of kill: SIGKILL goes out without the poll, also to a process
\* that has exited
kill_without_poll(b) ==
  IF b.state \in {"running", "exited"} THEN [b EXCEPT !.sigkill = TRUE]
  ELSE b

\* Popen.kill(): as terminate(), with SIGKILL
kill(b) ==
  IF b.state = "exited" THEN [b EXCEPT !.state = "reaped"]
  ELSE IF b.state = "running" THEN [b EXCEPT !.sigkill = TRUE]
  ELSE b

\* Popen.communicate(timeout=1.0) returns once the process has exited and
\* both pipes are at end of file; until then the timeout may expire
communicate_returns(b) == b.state \in {"exited", "reaped"} /\ b.drained

\* the command line of the subject
bench_argv == <<"--receiver-socket", receiver_sock, "--seq-dgram-socket", seq_dgram_sock,
                "--seq-stream-socket", seq_stream_sock>>

smoke_argv == <<"--receiver-socket", receiver_sock, "--seq-dgram-socket", seq_dgram_sock,
                "--seq-stream-socket", seq_stream_sock, "--verbose">>

\* a line is the sequence of its words, the trailing newline left out
direct_line(idx) == <<"RUN", "bench-direct", idx>>

bridge_expected(idx) == <<"RUN", "bench-bridge", idx>>

bridge_payload(idx) == [v |-> 1, type |-> "run", name |-> <<"bench-bridge", idx>>]

\* a mutant of cases: the third payload without the RUN prefix
cases_command_without_prefix ==
  << [payload |-> [v |-> 1, type |-> "run", name |-> <<"open Safari new tab">>],
      expected |-> <<"RUN", "open Safari new tab">>],
     [payload |-> [v |-> 1, type |-> "open_app_toggle", app |-> <<"Safari">>],
      expected |-> <<"OPEN_APP_TOGGLE", "Safari">>],
     [payload |-> [command |-> <<"New Linear task">>],
      expected |-> <<"RUN", "New Linear task">>],
     [payload |-> [line |-> <<"PING">>],
      expected |-> <<"PING">>] >>

cases ==
  << [payload |-> [v |-> 1, type |-> "run", name |-> <<"open Safari new tab">>],
      expected |-> <<"RUN", "open Safari new tab">>],
     [payload |-> [v |-> 1, type |-> "open_app_toggle", app |-> <<"Safari">>],
      expected |-> <<"OPEN_APP_TOGGLE", "Safari">>],
     [payload |-> [command |-> <<"RUN", "New Linear task">>],
      expected |-> <<"RUN", "New Linear task">>],
     [payload |-> [line |-> <<"PING">>],
      expected |-> <<"PING">>] >>

\* the line a bridge following the structured input protocol forwards
translate(payload) ==
  IF "type" \in DOMAIN payload
    THEN IF payload.type = "run" THEN <<"RUN">> \o payload.name
         ELSE <<"OPEN_APP_TOGGLE">> \o payload.app
  ELSE IF "command" \in DOMAIN payload THEN payload.command
  ELSE payload.line

\* a datagram the bridge is not contracted to produce
BadLine == <<"BAD">>

NoRatio == [num |-> -1, den |-> 1]

----------------------------------------------------------------------------
(* Initial states: one invocation of either tool *)

BenchArgs ==
  [build_if_missing : BOOLEAN, iterations : Counts, warmup : Counts,
   timeout_s : Timeouts, json_out : BOOLEAN, verbose : BOOLEAN]

\* the smoke test has no --iterations, --warmup or --json-out
SmokeArgs ==
  [build_if_missing : BOOLEAN, iterations : {0}, warmup : {0},
   timeout_s : Timeouts, json_out : {FALSE}, verbose : BOOLEAN]

MainStart ==
  /\ build_runs = 0
  /\ res = NoRes
  /\ td = FALSE
  /\ td_made = FALSE
  /\ fs = {}
  /\ listener = "none"
  /\ lq = <<>>
  /\ rq = <<>>
  /\ bridge = NoBridge
  /\ pc = "ensure"
  /\ i = 0
  /\ direct = <<>>
  /\ bridged = <<>>
  /\ recorded = [direct |-> <<>>, bridge |-> <<>>]
  /\ sent = <<>>
  /\ elapsed = 0
  /\ ready = "unknown"
  /\ got = NoLine
  /\ stdout_out = <<>>
  /\ stderr_out = <<>>
  /\ rows = <<>>
  /\ ratio = NoRatio
  /\ json_written = FALSE
  /\ body = NoOutcome
  /\ teardown_exc = NoOutcome
  /\ outcome = NoOutcome

Init ==
  /\ values_us = <<>>
  /\ row = NoRow
  /\ tool \in {"bench", "smoke"}
  /\ args \in (IF tool = "bench" THEN BenchArgs ELSE SmokeArgs)
  /\ bin_exists \in BOOLEAN
  /\ MainStart

----------------------------------------------------------------------------
(* main(), up to the readiness gate *)

\* bridge_bin = ensure_bridge_binary(Path(args.bridge_bin), args.build_if_missing)
EnsureBridgeBinary ==
  /\ pc = "ensure"
  /\ \E mk \in MakeResults :
       LET r == ensure_bridge_binary(bin_exists, args.build_if_missing, mk)
       IN /\ build_runs' = IF r.built THEN build_runs + 1 ELSE build_runs
          /\ res' = IF r.built THEN mk ELSE res
          /\ IF r.out.kind = "return"
               THEN pc' = "mkdtemp" /\ UNCHANGED <<body, outcome>>
               ELSE pc' = "done" /\ body' = r.out /\ outcome' = r.out
  /\ UNCHANGED <<aggvars, tool, args, bin_exists, td, td_made, fs, listener, lq, rq, bridge,
                 i, direct, bridged, recorded, sent, elapsed, ready, got, stdout_out,
                 stderr_out, rows, ratio, json_written, teardown_exc>>

\* with tempfile.TemporaryDirectory(...) as td: ... listener = socket.socket(...)
EnterTemporaryDirectory ==
  /\ pc = "mkdtemp"
  /\ td' = TRUE
  /\ td_made' = TRUE
  /\ listener' = "open"
  /\ pc' = "bind"
  /\ UNCHANGED <<aggvars, tool, args, bin_exists, build_runs, res, fs, lq, rq, bridge, i, direct,
                 bridged, recorded, sent, elapsed, ready, got, stdout_out, stderr_out,
                 rows, ratio, json_written, body, outcome, teardown_exc>>

\* bench: listener.bind(...) stands outside every try: an OSError leaves
\* through the with statement alone
BenchBind ==
  /\ pc = "bind" /\ tool = "bench"
  /\ \/ /\ fs' = fs \cup {seq_dgram_sock}
        /\ listener' = "bound"
        /\ pc' = "spawn"
        /\ UNCHANGED body
     \/ /\ body' = Raise("OSError", "bind")
        /\ pc' = "exit_with"
        /\ UNCHANGED <<fs, listener>>
  /\ UNCHANGED <<aggvars, tool, args, bin_exists, build_runs, res, td, td_made, lq, rq, bridge, i,
                 direct, bridged, recorded, sent, elapsed, ready, got, stdout_out,
                 stderr_out, rows, ratio, json_written, outcome, teardown_exc>>

\* smoke: listener.bind(...) stands inside the outer try, whose finally
\* closes the listener
SmokeBind ==
  /\ pc = "bind" /\ tool = "smoke"
  /\ \/ /\ fs' = fs \cup {seq_dgram_sock}
        /\ listener' = "bound"
        /\ pc' = "spawn"
        /\ UNCHANGED body
     \/ /\ body' = Raise("OSError", "bind")
        /\ pc' = "close"
        /\ UNCHANGED <<fs, listener>>
  /\ UNCHANGED <<aggvars, tool, args, bin_exists, build_runs, res, td, td_made, lq, rq, bridge, i,
                 direct, bridged, recorded, sent, elapsed, ready, got, stdout_out,
                 stderr_out, rows, ratio, json_written, outcome, teardown_exc>>

\* bench: bridge = subprocess.Popen([...]) outside every try
BenchSpawn ==
  /\ pc = "spawn" /\ tool = "bench"
  /\ \/ /\ bridge' = [NoBridge EXCEPT !.state = "running", !.argv = bench_argv]
        /\ pc' = "wait"
        /\ UNCHANGED body
     \/ /\ body' = Raise("OSError", "Popen")
        /\ pc' = "exit_with"
        /\ UNCHANGED bridge
  /\ UNCHANGED <<aggvars, tool, args, bin_exists, build_runs, res, td, td_made, fs, listener, lq, rq,
                 i, direct, bridged, recorded, sent, elapsed, ready, got, stdout_out,
                 stderr_out, rows, ratio, json_written, outcome, teardown_exc>>

\* smoke: bridge = subprocess.Popen([...]) inside the outer try
SmokeSpawn ==
  /\ pc = "spawn" /\ tool = "smoke"
  /\ \/ /\ bridge' = [NoBridge EXCEPT !.state = "running", !.argv = smoke_argv]
        /\ pc' = "wait"
        /\ UNCHANGED body
     \/ /\ body' = Raise("OSError", "Popen")
        /\ pc' = "close"
        /\ UNCHANGED bridge
  /\ UNCHANGED <<aggvars, tool, args, bin_exists, build_runs, res, td, td_made, fs, listener, lq, rq,
                 i, direct, bridged, recorded, sent, elapsed, ready, got, stdout_out,
                 stderr_out, rows, ratio, json_written, outcome, teardown_exc>>

\* a mutant of WaitForSocket: the caller goes on to the drivers although
\* the wait returned False
WaitForSocket_result_ignored ==
  /\ pc = "wait"
  /\ IF elapsed < args.timeout_s
       THEN IF receiver_sock \in fs
              THEN /\ ready' = "yes"
                   /\ pc' = IF tool = "bench" THEN "direct_send" ELSE "case_send"
                   /\ i' = IF tool = "bench" THEN 0 ELSE 1
                   /\ elapsed' = 0
              ELSE /\ elapsed' = elapsed + 1
                   /\ UNCHANGED <<ready, pc, i>>
       ELSE /\ ready' = "no"
            /\ pc' = IF tool = "bench" THEN "direct_send" ELSE "case_send"
            /\ i' = IF tool = "bench" THEN 0 ELSE 1
            /\ elapsed' = 0
  /\ UNCHANGED <<aggvars, tool, args, bin_exists, build_runs, res, td, td_made, fs, listener, lq, rq,
                 bridge, direct, bridged, recorded, sent, got, stdout_out, stderr_out,
                 rows, ratio, json_written, body, outcome, teardown_exc>>

\* wait_for_socket(receiver_sock, args.timeout_s), one evaluation of the
\* loop condition: past the deadline it returns False; before it, a path
\* that exists returns True and a missing one sleeps one interval
WaitForSocket ==
  /\ pc = "wait"
  /\ IF elapsed < args.timeout_s
       THEN IF receiver_sock \in fs
              THEN /\ ready' = "yes"
                   /\ pc' = IF tool = "bench" THEN "direct_send" ELSE "case_send"
                   /\ i' = IF tool = "bench" THEN 0 ELSE 1
                   /\ elapsed' = 0
              ELSE /\ elapsed' = elapsed + 1
                   /\ UNCHANGED <<ready, pc, i>>
       ELSE /\ ready' = "no"
            /\ pc' = "not_ready"
            /\ elapsed' = 0
            /\ UNCHANGED i
  /\ UNCHANGED <<aggvars, tool, args, bin_exists, build_runs, res, td, td_made, fs, listener, lq, rq,
                 bridge, direct, bridged, recorded, sent, got, stdout_out, stderr_out,
                 rows, ratio, json_written, body, outcome, teardown_exc>>

----------------------------------------------------------------------------
(* The readiness failure: lines 175-177 (bench), 111-116 (smoke) *)

\* bench: _out, err = bridge.communicate(timeout=1.0); raise RuntimeError(...)
BenchNotReady ==
  /\ pc = "not_ready" /\ tool = "bench"
  /\ IF communicate_returns(bridge)
       THEN /\ bridge' = [bridge EXCEPT !.state = "reaped"]
            /\ body' = [Raise("RuntimeError", "bridge receiver socket not created")
                          EXCEPT !.err = bridge.stderr]
       ELSE /\ body' = Raise("TimeoutExpired", "communicate")
            /\ UNCHANGED bridge
  /\ pc' = "finally"
  /\ UNCHANGED <<aggvars, tool, args, bin_exists, build_runs, res, td, td_made, fs, listener, lq, rq,
                 i, direct, bridged, recorded, sent, elapsed, ready, got, stdout_out,
                 stderr_out, rows, ratio, json_written, outcome, teardown_exc>>

\* smoke: stderr = bridge.communicate(timeout=1.0)[1]; print(...); return 2
SmokeNotReady ==
  /\ pc = "not_ready" /\ tool = "smoke"
  /\ IF communicate_returns(bridge)
       THEN /\ bridge' = [bridge EXCEPT !.state = "reaped"]
            /\ stderr_out' =
                 stderr_out \o <<"error: bridge receiver socket was not created">>
                   \o (IF bridge.stderr # "" THEN <<bridge.stderr>> ELSE <<>>)
            /\ body' = Return(2)
       ELSE /\ body' = Raise("TimeoutExpired", "communicate")
            /\ UNCHANGED <<bridge, stderr_out>>
  /\ pc' = "finally"
  /\ UNCHANGED <<aggvars, tool, args, bin_exists, build_runs, res, td, td_made, fs, listener, lq, rq,
                 i, direct, bridged, recorded, sent, elapsed, ready, got, stdout_out,
                 rows, ratio, json_written, outcome, teardown_exc>>

----------------------------------------------------------------------------
(* The drivers of the benchmark: lines 80-132 *)

\* for i in range(total)
total == args.iterations + args.warmup

\* bench_direct_dgram: the loop test and sender.sendto(line, seq_dgram_sock)
DirectSend ==
  /\ pc = "direct_send"
  /\ IF i < total
       THEN /\ lq' = Append(lq, direct_line(i))
            /\ sent' = Append(sent, [to |-> seq_dgram_sock, data |-> direct_line(i)])
            /\ got' = NoLine
            /\ pc' = "direct_recv"
            /\ UNCHANGED i
       ELSE /\ pc' = "bridge_send"
            /\ i' = 0
            /\ UNCHANGED <<lq, sent, got>>
  /\ UNCHANGED <<aggvars, tool, args, bin_exists, build_runs, res, td, td_made, fs, listener, rq,
                 bridge, direct, bridged, recorded, elapsed, ready, stdout_out,
                 stderr_out, rows, ratio, json_written, body, outcome, teardown_exc>>

\* a mutant of DirectRecv: a datagram that differs from the line sent is
\* taken as the echo all the same
DirectRecv_accepts_mismatch ==
  /\ pc = "direct_recv"
  /\ IF lq = <<>>
       THEN /\ body' = RaiseAt("timeout", "direct recvfrom", i)
            /\ pc' = "finally"
            /\ UNCHANGED <<lq, direct, recorded, i, got>>
       ELSE /\ lq' = Tail(lq)
            /\ got' = Head(lq)
            /\ \E us \in Latencies :
                 direct' = IF i >= args.warmup THEN Append(direct, us) ELSE direct
            /\ recorded' = IF i >= args.warmup
                             THEN [recorded EXCEPT !.direct = Append(@, i)]
                             ELSE recorded
            /\ i' = i + 1
            /\ pc' = "direct_send"
            /\ UNCHANGED body
  /\ UNCHANGED <<aggvars, tool, args, bin_exists, build_runs, res, td, td_made, fs, listener, rq,
                 bridge, bridged, sent, elapsed, ready, stdout_out, stderr_out,
                 rows, ratio, json_written, outcome, teardown_exc>>

\* bench_direct_dgram: listener.recvfrom(4096), the comparison, the append
DirectRecv ==
  /\ pc = "direct_recv"
  /\ IF lq = <<>>
       THEN /\ body' = RaiseAt("timeout", "direct recvfrom", i)
            /\ pc' = "finally"
            /\ UNCHANGED <<lq, direct, recorded, i, got>>
       ELSE /\ lq' = Tail(lq)
            /\ got' = Head(lq)
            /\ IF Head(lq) # direct_line(i)
                 THEN /\ body' = RaiseAt("RuntimeError", "direct mismatch", i)
                      /\ pc' = "finally"
                      /\ UNCHANGED <<direct, recorded, i>>
                 ELSE /\ \E us \in Latencies :
                           direct' = IF i >= args.warmup THEN Append(direct, us) ELSE direct
                      /\ recorded' = IF i >= args.warmup
                                       THEN [recorded EXCEPT !.direct = Append(@, i)]
                                       ELSE recorded
                      /\ i' = i + 1
                      /\ pc' = "direct_send"
                      /\ UNCHANGED body
  /\ UNCHANGED <<aggvars, tool, args, bin_exists, build_runs, res, td, td_made, fs, listener, rq,
                 bridge, bridged, sent, elapsed, ready, stdout_out, stderr_out,
                 rows, ratio, json_written, outcome, teardown_exc>>

\* a datagram can be sent to the receiver socket while its path exists and
\* the subject that bound it is running; otherwise sendto raises OSError
receiver_accepts == receiver_sock \in fs /\ bridge.state = "running"

\* bench_bridge_dgram: the loop test and sender.sendto(json.dumps(payload), receiver_sock)
BridgeSend ==
  /\ pc = "bridge_send"
  /\ IF i < total
       THEN IF receiver_accepts
              THEN /\ rq' = Append(rq, bridge_payload(i))
                   /\ sent' = Append(sent, [to |-> receiver_sock, data |-> bridge_payload(i)])
                   /\ got' = NoLine
                   /\ pc' = "bridge_recv"
                   /\ UNCHANGED body
              ELSE /\ body' = RaiseAt("OSError", "bridge sendto", i)
                   /\ got' = NoLine
                   /\ pc' = "finally"
                   /\ UNCHANGED <<rq, sent>>
       ELSE /\ pc' = "report"
            /\ UNCHANGED <<rq, sent, body, got>>
  /\ UNCHANGED <<aggvars, tool, args, bin_exists, build_runs, res, td, td_made, fs, listener, lq,
                 bridge, i, direct, bridged, recorded, elapsed, ready, stdout_out,
                 stderr_out, rows, ratio, json_written, outcome, teardown_exc>>

\* a mutant of BridgeRecv: a receive timeout skips the sample and the
\* driver goes on to the next index
BridgeRecv_skips_timeout ==
  /\ pc = "bridge_recv"
  /\ IF lq = <<>>
       THEN /\ i' = i + 1
            /\ pc' = "bridge_send"
            /\ UNCHANGED <<lq, bridged, recorded, body, got>>
       ELSE /\ lq' = Tail(lq)
            /\ got' = Head(lq)
            /\ IF Head(lq) # bridge_expected(i)
                 THEN /\ body' = RaiseAt("RuntimeError", "bridge mismatch", i)
                      /\ pc' = "finally"
                      /\ UNCHANGED <<bridged, recorded, i>>
                 ELSE /\ \E us \in Latencies :
                           bridged' = IF i >= args.warmup THEN Append(bridged, us) ELSE bridged
                      /\ recorded' = IF i >= args.warmup
                                       THEN [recorded EXCEPT !.bridge = Append(@, i)]
                                       ELSE recorded
                      /\ i' = i + 1
                      /\ pc' = "bridge_send"
                      /\ UNCHANGED body
  /\ UNCHANGED <<aggvars, tool, args, bin_exists, build_runs, res, td, td_made, fs, listener, rq,
                 bridge, direct, sent, elapsed, ready, stdout_out, stderr_out,
                 rows, ratio, json_written, outcome, teardown_exc>>

\* bench_bridge_dgram: listener.recvfrom(4096), the comparison, the append
BridgeRecv ==
  /\ pc = "bridge_recv"
  /\ IF lq = <<>>
       THEN /\ body' = RaiseAt("timeout", "bridge recvfrom", i)
            /\ pc' = "finally"
            /\ UNCHANGED <<lq, bridged, recorded, i, got>>
       ELSE /\ lq' = Tail(lq)
            /\ got' = Head(lq)
            /\ IF Head(lq) # bridge_expected(i)
                 THEN /\ body' = RaiseAt("RuntimeError", "bridge mismatch", i)
                      /\ pc' = "finally"
                      /\ UNCHANGED <<bridged, recorded, i>>
                 ELSE /\ \E us \in Latencies :
                           bridged' = IF i >= args.warmup THEN Append(bridged, us) ELSE bridged
                      /\ recorded' = IF i >= args.warmup
                                       THEN [recorded EXCEPT !.bridge = Append(@, i)]
                                       ELSE recorded
                      /\ i' = i + 1
                      /\ pc' = "bridge_send"
                      /\ UNCHANGED body
  /\ UNCHANGED <<aggvars, tool, args, bin_exists, build_runs, res, td, td_made, fs, listener, rq,
                 bridge, direct, sent, elapsed, ready, stdout_out, stderr_out,
                 rows, ratio, json_written, outcome, teardown_exc>>

\* a mutant of overhead_ratio: the division is not guarded
overhead_ratio_unguarded(rs) == [num |-> rs[2].p95_us, den |-> rs[1].p95_us]

\* ratio = (rows[1]["p95_us"] / rows[0]["p95_us"]) if rows[0]["p95_us"] else 0.0
overhead_ratio(rs) ==
  IF rs[1].p95_us # 0 THEN [num |-> rs[2].p95_us, den |-> rs[1].p95_us] ELSE Zero

\* main(): summarize both, print, compute the ratio, write the report, return 0
Report ==
  /\ pc = "report"
  /\ LET rs == <<summarize("direct_dgram", direct),
                 summarize("bridge_via_user_command", bridged)>>
     IN /\ rows' = rs
        /\ ratio' = overhead_ratio(rs)
  /\ stdout_out' = stdout_out \o <<"summary direct_dgram", "summary bridge_via_user_command",
                                   "p95 overhead ratio">>
                     \o (IF args.json_out THEN <<"json">> ELSE <<>>)
  /\ json_written' = args.json_out
  /\ body' = Return(0)
  /\ pc' = "finally"
  /\ UNCHANGED <<aggvars, tool, args, bin_exists, build_runs, res, td, td_made, fs, listener, lq, rq,
                 bridge, i, direct, bridged, recorded, sent, elapsed, ready, got,
                 stderr_out, outcome, teardown_exc>>

----------------------------------------------------------------------------
(* The smoke verifier: lines 118-137 *)

\* the loop test, send_payload(receiver_sock, payload); after the last
\* case: print("ok: bridge smoke test passed"); return 0
CaseSend ==
  /\ pc = "case_send"
  /\ IF i <= Len(cases)
       THEN IF receiver_accepts
              THEN /\ rq' = Append(rq, cases[i].payload)
                   /\ sent' = Append(sent, [to |-> receiver_sock, data |-> cases[i].payload])
                   /\ got' = NoLine
                   /\ pc' = "case_recv"
                   /\ UNCHANGED <<body, stdout_out>>
              ELSE /\ body' = RaiseAt("OSError", "send_payload", i)
                   /\ got' = NoLine
                   /\ pc' = "finally"
                   /\ UNCHANGED <<rq, sent, stdout_out>>
       ELSE /\ stdout_out' = Append(stdout_out, "ok: bridge smoke test passed")
            /\ body' = Return(0)
            /\ pc' = "finally"
            /\ UNCHANGED <<rq, sent, got>>
  /\ UNCHANGED <<aggvars, tool, args, bin_exists, build_runs, res, td, td_made, fs, listener, lq,
                 bridge, i, direct, bridged, recorded, elapsed, ready,
                 stderr_out, rows, ratio, json_written, outcome, teardown_exc>>

\* a mutant of CaseRecv: recv_line without its timeout, which waits until
\* a datagram arrives
CaseRecv_without_timeout ==
  /\ pc = "case_recv"
  /\ lq # <<>>
  /\ lq' = Tail(lq)
  /\ got' = Head(lq)
  /\ IF Head(lq) # cases[i].expected
       THEN /\ stderr_out' = stderr_out \o
                 << [error |-> "mismatch", case |-> i,
                     expected |-> cases[i].expected, actual |-> Head(lq)] >>
            /\ body' = Return(3)
            /\ pc' = "finally"
            /\ UNCHANGED <<i, stdout_out>>
       ELSE /\ stdout_out' = IF args.verbose
                               THEN Append(stdout_out, <<"ok case", i>>)
                               ELSE stdout_out
            /\ i' = i + 1
            /\ pc' = "case_send"
            /\ UNCHANGED <<body, stderr_out>>
  /\ UNCHANGED <<aggvars, tool, args, bin_exists, build_runs, res, td, td_made, fs, listener, rq,
                 bridge, direct, bridged, recorded, sent, elapsed, ready,
                 rows, ratio, json_written, outcome, teardown_exc>>

\* actual = recv_line(listener, args.timeout_s) and the comparison
CaseRecv ==
  /\ pc = "case_recv"
  /\ IF lq = <<>>
       THEN /\ body' = RaiseAt("timeout", "recv_line", i)
            /\ pc' = "finally"
            /\ UNCHANGED <<lq, i, stdout_out, stderr_out, got>>
       ELSE /\ lq' = Tail(lq)
            /\ got' = Head(lq)
            /\ IF Head(lq) # cases[i].expected
                 THEN /\ stderr_out' = stderr_out \o
                           << [error |-> "mismatch", case |-> i,
                               expected |-> cases[i].expected, actual |-> Head(lq)] >>
                      /\ body' = Return(3)
                      /\ pc' = "finally"
                      /\ UNCHANGED <<i, stdout_out>>
                 ELSE /\ stdout_out' = IF args.verbose
                                         THEN Append(stdout_out, <<"ok case", i>>)
                                         ELSE stdout_out
                      /\ i' = i + 1
                      /\ pc' = "case_send"
                      /\ UNCHANGED <<body, stderr_out>>
  /\ UNCHANGED <<aggvars, tool, args, bin_exists, build_runs, res, td, td_made, fs, listener, rq,
                 bridge, direct, bridged, recorded, sent, elapsed, ready,
                 rows, ratio, json_written, outcome, teardown_exc>>

----------------------------------------------------------------------------
(* Teardown: lines 213-220 (bench), 138-148 (smoke), and leaving the with *)

\* bench: finally: listener.close(); bridge.terminate()
BenchFinally ==
  /\ pc = "finally" /\ tool = "bench"
  /\ listener' = "closed"
  /\ bridge' = terminate(bridge)
  /\ pc' = "communicate"
  /\ UNCHANGED <<aggvars, tool, args, bin_exists, build_runs, res, td, td_made, fs, lq, rq,
                 i, direct, bridged, recorded, sent, elapsed, ready, got, stdout_out,
                 stderr_out, rows, ratio, json_written, body, outcome, teardown_exc>>

\* bench: try: bridge.communicate(timeout=1.0)
\*        except subprocess.TimeoutExpired: bridge.kill()
BenchCommunicate ==
  /\ pc = "communicate" /\ tool = "bench"
  /\ IF communicate_returns(bridge)
       THEN /\ bridge' = [bridge EXCEPT !.state = "reaped"]
            /\ pc' = "exit_with"
       ELSE /\ bridge' = kill(bridge)
            /\ pc' = "communicate_killed"
  /\ UNCHANGED <<aggvars, tool, args, bin_exists, build_runs, res, td, td_made, fs, listener, lq, rq,
                 i, direct, bridged, recorded, sent, elapsed, ready, got, stdout_out,
                 stderr_out, rows, ratio, json_written, body, outcome, teardown_exc>>

\* bench: bridge.communicate(timeout=1.0) after the kill; a TimeoutExpired
\* raised here, inside the finally, replaces the outcome of the body
BenchCommunicateKilled ==
  /\ pc = "communicate_killed" /\ tool = "bench"
  /\ IF communicate_returns(bridge)
       THEN /\ bridge' = [bridge EXCEPT !.state = "reaped"]
            /\ UNCHANGED teardown_exc
       ELSE /\ teardown_exc' = Raise("TimeoutExpired", "communicate after kill")
            /\ UNCHANGED bridge
  /\ pc' = "exit_with"
  /\ UNCHANGED <<aggvars, tool, args, bin_exists, build_runs, res, td, td_made, fs, listener, lq, rq,
                 i, direct, bridged, recorded, sent, elapsed, ready, got, stdout_out,
                 stderr_out, rows, ratio, json_written, body, outcome>>

\* smoke: inner finally: bridge.terminate()
SmokeFinally ==
  /\ pc = "finally" /\ tool = "smoke"
  /\ bridge' = terminate(bridge)
  /\ pc' = "communicate"
  /\ UNCHANGED <<aggvars, tool, args, bin_exists, build_runs, res, td, td_made, fs, listener, lq, rq,
                 i, direct, bridged, recorded, sent, elapsed, ready, got, stdout_out,
                 stderr_out, rows, ratio, json_written, body, outcome, teardown_exc>>

\* if args.verbose and err: print(err.rstrip())
print_err(out, verbose, err) == IF verbose /\ err # "" THEN Append(out, err) ELSE out

\* smoke: try: _out, err = bridge.communicate(timeout=1.0)
\*        except subprocess.TimeoutExpired: bridge.kill()
SmokeCommunicate ==
  /\ pc = "communicate" /\ tool = "smoke"
  /\ IF communicate_returns(bridge)
       THEN /\ bridge' = [bridge EXCEPT !.state = "reaped"]
            /\ stdout_out' = print_err(stdout_out, args.verbose, bridge.stderr)
            /\ pc' = "close"
       ELSE /\ bridge' = kill(bridge)
            /\ pc' = "communicate_killed"
            /\ UNCHANGED stdout_out
  /\ UNCHANGED <<aggvars, tool, args, bin_exists, build_runs, res, td, td_made, fs, listener, lq, rq,
                 i, direct, bridged, recorded, sent, elapsed, ready, got,
                 stderr_out, rows, ratio, json_written, body, outcome, teardown_exc>>

\* smoke: _out, err = bridge.communicate(timeout=1.0) after the kill
SmokeCommunicateKilled ==
  /\ pc = "communicate_killed" /\ tool = "smoke"
  /\ IF communicate_returns(bridge)
       THEN /\ bridge' = [bridge EXCEPT !.state = "reaped"]
            /\ stdout_out' = print_err(stdout_out, args.verbose, bridge.stderr)
            /\ UNCHANGED teardown_exc
       ELSE /\ teardown_exc' = Raise("TimeoutExpired", "communicate after kill")
            /\ UNCHANGED <<bridge, stdout_out>>
  /\ pc' = "close"
  /\ UNCHANGED <<aggvars, tool, args, bin_exists, build_runs, res, td, td_made, fs, listener, lq, rq,
                 i, direct, bridged, recorded, sent, elapsed, ready, got,
                 stderr_out, rows, ratio, json_written, body, outcome>>

\* smoke: outer finally: listener.close()
SmokeClose ==
  /\ pc = "close"
  /\ listener' = "closed"
  /\ pc' = "exit_with"
  /\ UNCHANGED <<aggvars, tool, args, bin_exists, build_runs, res, td, td_made, fs, lq, rq, bridge,
                 i, direct, bridged, recorded, sent, elapsed, ready, got, stdout_out,
                 stderr_out, rows, ratio, json_written, body, outcome, teardown_exc>>

\* leaving `with tempfile.TemporaryDirectory(...)`: the directory and all
\* it holds are removed; main() returns or raises what the body determined
ExitTemporaryDirectory ==
  /\ pc = "exit_with"
  /\ td' = FALSE
  /\ fs' = {}
  /\ outcome' = IF teardown_exc.kind = "raise" THEN teardown_exc ELSE body
  /\ pc' = "done"
  /\ UNCHANGED <<aggvars, tool, args, bin_exists, build_runs, res, td_made, listener, lq, rq, bridge,
                 i, direct, bridged, recorded, sent, elapsed, ready, got, stdout_out,
                 stderr_out, rows, ratio, json_written, body, teardown_exc>>

----------------------------------------------------------------------------
(* The subject process: an opaque external actor, followed until the run *)
(* has ended                                                             *)

\* the subject binds its receiver socket (the readiness signal)
SubjectCreatesSocket ==
  /\ pc # "done"
  /\ bridge.state = "running"
  /\ td
  /\ receiver_sock \notin fs
  /\ fs' = fs \cup {receiver_sock}
  /\ UNCHANGED <<aggvars, tool, args, bin_exists, build_runs, res, td, td_made, listener, lq, rq,
                 bridge, pc, i, direct, bridged, recorded, sent, elapsed, ready, got,
                 stdout_out, stderr_out, rows, ratio, json_written, body, outcome, teardown_exc>>

\* the subject exits (on its own, or because of a signal); its pipes reach
\* end of file unless another process still holds them
SubjectExits ==
  /\ pc # "done"
  /\ bridge.state = "running"
  /\ \E d \in BOOLEAN, e \in {"", "trace"} :
       bridge' = [bridge EXCEPT !.state = "exited", !.drained = d, !.stderr = e]
  /\ UNCHANGED <<aggvars, tool, args, bin_exists, build_runs, res, td, td_made, fs, listener, lq, rq,
                 pc, i, direct, bridged, recorded, sent, elapsed, ready, got,
                 stdout_out, stderr_out, rows, ratio, json_written, body, outcome, teardown_exc>>

\* the last holder of the subject's stdout and stderr pipes closes them
SubjectPipesDrain ==
  /\ pc # "done"
  /\ bridge.state \in {"exited", "reaped"}
  /\ ~bridge.drained
  /\ bridge' = [bridge EXCEPT !.drained = TRUE]
  /\ UNCHANGED <<aggvars, tool, args, bin_exists, build_runs, res, td, td_made, fs, listener, lq, rq,
                 pc, i, direct, bridged, recorded, sent, elapsed, ready, got,
                 stdout_out, stderr_out, rows, ratio, json_written, body, outcome, teardown_exc>>

\* the subject takes one datagram from its receiver socket and forwards a
\* line to the upstream-dgram socket: the translation, or something else
SubjectForwards ==
  /\ pc # "done"
  /\ bridge.state = "running"
  /\ rq # <<>>
  /\ listener = "bound"
  /\ \E l \in {translate(Head(rq)), BadLine} : lq' = Append(lq, l)
  /\ rq' = Tail(rq)
  /\ UNCHANGED <<aggvars, tool, args, bin_exists, build_runs, res, td, td_made, fs, listener,
                 bridge, pc, i, direct, bridged, recorded, sent, elapsed, ready, got,
                 stdout_out, stderr_out, rows, ratio, json_written, body, outcome, teardown_exc>>

\* the subject sends a datagram nothing asked for (once at most)
SubjectEmits ==
  /\ pc # "done"
  /\ bridge.state = "running"
  /\ listener = "bound"
  /\ ~bridge.emitted
  /\ lq' = Append(lq, BadLine)
  /\ bridge' = [bridge EXCEPT !.emitted = TRUE]
  /\ UNCHANGED <<aggvars, tool, args, bin_exists, build_runs, res, td, td_made, fs, listener, rq,
                 pc, i, direct, bridged, recorded, sent, elapsed, ready, got,
                 stdout_out, stderr_out, rows, ratio, json_written, body, outcome, teardown_exc>>

----------------------------------------------------------------------------

Next ==
  \/ EnsureBridgeBinary
  \/ EnterTemporaryDirectory
  \/ BenchBind
  \/ SmokeBind
  \/ BenchSpawn
  \/ SmokeSpawn
  \/ WaitForSocket
  \/ BenchNotReady
  \/ SmokeNotReady
  \/ DirectSend
  \/ DirectRecv
  \/ BridgeSend
  \/ BridgeRecv
  \/ Report
  \/ CaseSend
  \/ CaseRecv
  \/ BenchFinally
  \/ BenchCommunicate
  \/ BenchCommunicateKilled
  \/ SmokeFinally
  \/ SmokeCommunicate
  \/ SmokeCommunicateKilled
  \/ SmokeClose
  \/ ExitTemporaryDirectory
  \/ SubjectCreatesSocket
  \/ SubjectExits
  \/ SubjectPipesDrain
  \/ SubjectForwards
  \/ SubjectEmits

Spec == Init /\ [][Next]_vars

\* the steps of main(): the harness is one thread, and each of its steps
\* is a call that returns or raises within its deadline
HarnessStep ==
  \/ EnsureBridgeBinary
  \/ EnterTemporaryDirectory
  \/ BenchBind
  \/ SmokeBind
  \/ BenchSpawn
  \/ SmokeSpawn
  \/ WaitForSocket
  \/ BenchNotReady
  \/ SmokeNotReady
  \/ DirectSend
  \/ DirectRecv
  \/ BridgeSend
  \/ BridgeRecv
  \/ Report
  \/ CaseSend
  \/ CaseRecv
  \/ BenchFinally
  \/ BenchCommunicate
  \/ BenchCommunicateKilled
  \/ SmokeFinally
  \/ SmokeCommunicate
  \/ SmokeCommunicateKilled
  \/ SmokeClose
  \/ ExitTemporaryDirectory

\* the run with its scheduling: the harness always takes its next step;
\* nothing is assumed of the subject
\* the invocations whose termination is followed: no build, no warmup and
\* no report or verbose option, which change what a run records and prints
\* but not the calls it makes to the subject
LiveBenchArgs ==
  [build_if_missing : {FALSE}, iterations : Counts, warmup : {0},
   timeout_s : Timeouts, json_out : {FALSE}, verbose : {FALSE}]

LiveSmokeArgs ==
  [build_if_missing : {FALSE}, iterations : {0}, warmup : {0},
   timeout_s : Timeouts, json_out : {FALSE}, verbose : {FALSE}]

InitLive ==
  /\ values_us = <<>>
  /\ row = NoRow
  /\ tool \in {"bench", "smoke"}
  /\ args \in (IF tool = "bench" THEN LiveBenchArgs ELSE LiveSmokeArgs)
  /\ bin_exists \in BOOLEAN
  /\ MainStart

SpecLive == InitLive /\ [][Next]_vars /\ WF_vars(HarnessStep)

----------------------------------------------------------------------------
(* SpecAgg: summarize applied to every sample list within the bounds *)

\* the run itself stays where it starts
InitAgg ==
  /\ values_us \in SeqsUpTo(MaxSamples)
  /\ row = NoRow
  /\ tool = "bench"
  /\ args = [build_if_missing |-> FALSE, iterations |-> 0, warmup |-> 0,
             timeout_s |-> 0, json_out |-> FALSE, verbose |-> FALSE]
  /\ bin_exists = TRUE
  /\ MainStart

Summarize ==
  /\ row = NoRow
  /\ row' = summarize("direct_dgram", values_us)
  /\ UNCHANGED <<values_us, mainvars>>

NextAgg == Summarize

SpecAgg == InitAgg /\ [][NextAgg]_vars

----------------------------------------------------------------------------
(* Properties *)

ProvisioningMessages ==
  {"bridge binary not found", "failed to build bridge", "bridge binary not found after build"}

DriverMessages ==
  {"direct recvfrom", "direct mismatch", "bridge sendto", "bridge recvfrom", "bridge mismatch"}

\* binary missing, build failed, readiness timeout
InfrastructureFailure == body.msg \in ProvisioningMessages \/ ready = "no"

\* echo or bridge mismatch, smoke-case mismatch, receive timeout
BehaviouralFailure ==
  \/ body.msg \in {"direct mismatch", "bridge mismatch"}
  \/ body.exc = "timeout"
  \/ (tool = "smoke" /\ body = Return(3))

\* the exit statuses a failed binary resolution ends with
ProvisioningExitStatuses ==
  {exit_status(ensure_bridge_binary(FALSE, b, mk).out) : b \in BOOLEAN, mk \in MakeResults}
    \ {0}

\* C1: once a run that created the ephemeral directory has ended, the
\* directory and the three socket paths are gone and the subject process,
\* if one was spawned, has been terminated and reaped.
C1_TeardownInvariant ==
  (pc = "done" /\ td_made) =>
    /\ ~td
    /\ fs = {}
    /\ bridge.state \in {"none", "reaped"}

\* C2: a driver that returned normally recorded exactly `iterations`
\* samples, none from an index below `warmup`; a run whose driver was
\* aborted printed no summary and wrote no report.
C2_SampleCount ==
  /\ (tool = "bench" /\ pc \in {"bridge_send", "bridge_recv", "report"}) =>
       /\ Len(direct) = args.iterations
       /\ \A k \in 1..Len(recorded.direct) : recorded.direct[k] >= args.warmup
  /\ (tool = "bench" /\ pc = "report") =>
       /\ Len(bridged) = args.iterations
       /\ \A k \in 1..Len(recorded.bridge) : recorded.bridge[k] >= args.warmup
  /\ (pc = "done" /\ body.msg \in DriverMessages) =>
       /\ outcome.kind = "raise"
       /\ stdout_out = <<>>
       /\ ~json_written

\* C3: a failing run exits nonzero, and a behavioural failure never exits
\* with a status that a failed binary resolution exits with.
C3_ExitCodesDiscriminate ==
  pc = "done" =>
    /\ (InfrastructureFailure \/ BehaviouralFailure) => exit_status(outcome) # 0
    /\ BehaviouralFailure => exit_status(outcome) \notin ProvisioningExitStatuses

\* C4: when wait_for_socket returned False the run ends as the readiness
\* failure: the smoke test returns 2 after printing its diagnostic and the
\* captured stderr, the benchmark raises the "bridge receiver socket not
\* created" error carrying the captured stderr.
C4_ReadinessFailureReported ==
  (pc = "done" /\ ready = "no") =>
    IF tool = "smoke"
      THEN /\ outcome = Return(2)
           /\ stderr_out = <<"error: bridge receiver socket was not created">>
                             \o (IF bridge.stderr # "" THEN <<bridge.stderr>> ELSE <<>>)
      ELSE /\ outcome.kind = "raise"
           /\ outcome.exc = "RuntimeError"
           /\ outcome.msg = "bridge receiver socket not created"
           /\ outcome.err = bridge.stderr

\* C5: a smoke run whose case i received a line other than the expected
\* one returns 3 with the diagnostic naming i, the expected and the actual
\* line, having sent no payload after that of case i; a run returns 0 only
\* after every case matched.
C5_SmokeStopsAtFirstMismatch ==
  (tool = "smoke" /\ pc = "done") =>
    /\ (got # NoLine /\ i <= Len(cases) /\ got # cases[i].expected) =>
         /\ outcome = Return(3)
         /\ stderr_out = << [error |-> "mismatch", case |-> i,
                             expected |-> cases[i].expected, actual |-> got] >>
         /\ Len(sent) = i
    /\ outcome = Return(0) => (i = Len(cases) + 1 /\ Len(sent) = Len(cases))

\* C6: for a non-empty sample list in any order, summarize returns
\* min <= p50 <= p90 <= p95 <= p99 <= max and count = the input length.
C6_SummaryOrdered ==
  (row # NoRow /\ values_us # <<>>) =>
    /\ row.min_us <= row.p50_us
    /\ row.p50_us <= row.p90_us
    /\ row.p90_us <= row.p95_us
    /\ row.p95_us <= row.p99_us
    /\ row.p99_us <= row.max_us
    /\ row.count = Len(values_us)

\* C6 witness: an input given out of order whose summary has min < p50 < max
C6_Witness ==
  /\ row # NoRow
  /\ Len(values_us) >= 3
  /\ values_us[1] > values_us[2]
  /\ row.min_us < row.p50_us
  /\ row.p50_us < row.max_us

RowPercentile(r, p) ==
  CASE p = 50 -> r.p50_us
    [] p = 90 -> r.p90_us
    [] p = 95 -> r.p95_us
    [] p = 99 -> r.p99_us

\* C7: for a sorted list of n >= 1 samples and p in {50, 90, 95, 99},
\* percentile returns the element at the index of [0, n-1] that is
\* p/100 * (n-1) rounded to the nearest integer (a tie going to the even
\* index, as Python's round does): an element of the input, never an
\* interpolated value.
C7_PercentileNearestRank ==
  (row # NoRow /\ values_us # <<>>) =>
    LET sv == sorted(values_us)
        n == Len(sv)
    IN \A p \in {50, 90, 95, 99} :
         \E idx \in 0..(n - 1) :
           LET off == 100 * idx - p * (n - 1)
           IN /\ off <= 50
              /\ -off <= 50
              /\ (off = 50 \/ -off = 50) => idx % 2 = 0
              /\ RowPercentile(row, p) = sv[idx + 1]

\* C7 witness: three distinct samples, where p50 is the middle one and
\* p90 the largest
C7_Witness ==
  /\ row # NoRow
  /\ sorted(values_us) = <<0, 1, 2>>
  /\ row.p50_us = 1
  /\ row.p90_us = 2

\* C8: for the empty sample list summarize returns count 0 and zero for
\* min, p50, p90, p95, p99, max and mean.
C8_EmptySummary ==
  (row # NoRow /\ values_us = <<>>) =>
    /\ row.count = 0
    /\ row.min_us = 0
    /\ row.p50_us = 0
    /\ row.p90_us = 0
    /\ row.p95_us = 0
    /\ row.p99_us = 0
    /\ row.max_us = 0
    /\ row.mean_us.num = 0
    /\ row.mean_us.den # 0

\* C8 witness: summarize has returned for the empty list
C8_Witness == row # NoRow /\ values_us = <<>> /\ row.name = "direct_dgram"

\* C9: the reported ratio is 0 when the direct p95 is 0, and otherwise is
\* the bridged p95 divided by the direct p95.
C9_OverheadRatio ==
  rows # <<>> =>
    /\ rows[1].p95_us = 0 => ratio = Zero
    /\ rows[1].p95_us # 0 =>
         /\ ratio.den # 0
         /\ ratio.num * rows[1].p95_us = rows[2].p95_us * ratio.den

\* C9 witness: a report whose direct p95 is 0 and whose bridged p95 is not
C9_Witness ==
  /\ rows # <<>>
  /\ rows[1].p95_us = 0
  /\ rows[2].p95_us > 0
  /\ rows[1].count > 0
  /\ ratio = Zero

\* C10: a path that exists is returned without a build; an absent path
\* without --build-if-missing fails without a build; with it the build
\* runs exactly once and resolution fails exactly when make exits nonzero
\* or the path is still absent; a failed resolution ends the run before
\* the directory, the listener or the subject exist.
C10_BinaryResolution ==
  pc # "ensure" =>
    LET failed == outcome.kind = "raise" /\ outcome.msg \in ProvisioningMessages
    IN /\ bin_exists => (~failed /\ build_runs = 0)
       /\ (~bin_exists /\ ~args.build_if_missing) => (failed /\ build_runs = 0)
       /\ (~bin_exists /\ args.build_if_missing) =>
            /\ build_runs = 1
            /\ failed <=> (res.returncode # 0 \/ ~res.exists_after)
       /\ failed =>
            /\ pc = "done"
            /\ ~td_made /\ ~td /\ fs = {}
            /\ listener = "none"
            /\ bridge.state = "none"
       /\ ~failed => (pc = "mkdtemp" \/ td_made)

\* C10 witness: the build ran, make exited 0, and the path is still absent
C10_Witness ==
  /\ pc = "done"
  /\ build_runs = 1
  /\ res.returncode = 0
  /\ ~res.exists_after
  /\ outcome.msg = "bridge binary not found after build"

\* the subject answered the latest payload of the smoke test as the
\* structured input protocol says
AnsweredByProtocol ==
  /\ tool = "smoke"
  /\ sent # <<>>
  /\ got # NoLine
  /\ got = translate(sent[Len(sent)].data)

\* C11 as stated: a case answered by a bridge that follows the structured
\* input protocol matches, and the third case sends {"command":"New Linear
\* task"} and expects "RUN New Linear task".
C11_SmokeCorpusAsStated ==
  /\ AnsweredByProtocol =>
       /\ got = cases[Len(sent)].expected
       /\ body # Return(3)
  /\ (tool = "smoke" /\ Len(sent) >= 3) =>
       /\ sent[3].data = [command |-> <<"New Linear task">>]
       /\ cases[3].expected = <<"RUN", "New Linear task">>

\* C11 amended: a case answered by a bridge that follows the structured
\* input protocol matches, and the third case sends {"command":"RUN New
\* Linear task"} and expects "RUN New Linear task".
C11_SmokeCorpus ==
  /\ AnsweredByProtocol =>
       /\ got = cases[Len(sent)].expected
       /\ body # Return(3)
  /\ (tool = "smoke" /\ Len(sent) >= 3) =>
       /\ sent[3].data = [command |-> <<"RUN", "New Linear task">>]
       /\ cases[3].expected = <<"RUN", "New Linear task">>

\* C11 witness: the third case was answered by the protocol and matched
C11_Witness ==
  /\ AnsweredByProtocol
  /\ Len(sent) = 3
  /\ pc = "case_send"
  /\ i = 4

\* the harness sends a datagram in this step
HarnessSends == Len(sent') = Len(sent) + 1

\* the datagram sent in this step is the one for the current index, and
\* as many datagrams were sent before it as indices were completed
SendsCurrentIndex ==
  LET d == sent'[Len(sent')]
  IN CASE pc = "direct_send" ->
            d.data = direct_line(i) /\ Len(sent) = i
       [] pc = "bridge_send" ->
            d.data = bridge_payload(i) /\ Len(sent) = total + i
       [] pc = "case_send" ->
            d.data = cases[i].payload /\ Len(sent) = i - 1
       [] OTHER -> FALSE

InFlight == Len(rq) + Len(lq)

\* the datagrams in flight that answer no message of the harness
Unsolicited == IF bridge.emitted THEN 1 ELSE 0

DriverReceiveFails ==
  \/ pc = "direct_recv" /\ (lq = <<>> \/ Head(lq) # direct_line(i))
  \/ pc = "bridge_recv" /\ (lq = <<>> \/ Head(lq) # bridge_expected(i))

\* the positions of main() after its body
AfterBody == {"finally", "communicate", "communicate_killed", "close", "exit_with", "done"}

\* C13: a mismatch or a receive timeout at index i of a driver aborts the
\* driver at once with an error naming i; from then on no sample is
\* recorded, no message is sent and no datagram is received; when the
\* direct driver failed the bridged driver never started.
C13_DriverAborts ==
  /\ [][(DriverReceiveFails /\ pc' # pc) =>
         /\ pc' = "finally"
         /\ body'.kind = "raise"
         /\ body'.at = i
         /\ UNCHANGED <<direct, bridged, recorded, sent, i>>]_vars
  /\ [][(tool = "bench" /\ pc \in AfterBody) =>
         /\ pc' \in AfterBody
         /\ UNCHANGED <<direct, bridged, recorded, sent, i, got>>
         /\ Len(lq') >= Len(lq)]_vars
  /\ [](body.msg \in {"direct recvfrom", "direct mismatch"} =>
         /\ bridged = <<>>
         /\ recorded.bridge = <<>>
         /\ \A k \in 1..Len(sent) : sent[k].to # receiver_sock)

\* C13 witness: the bridged driver timed out at index 1, an index past
\* the warmup, after index 0 went through; the run has ended
C13_Witness ==
  /\ pc = "done"
  /\ body = RaiseAt("timeout", "bridge recvfrom", 1)
  /\ args.warmup = 1
  /\ recorded.bridge = <<>>
  /\ Len(direct) = 1
  /\ Len(sent) = total + 2

\* the harness has sent a payload to the receiver socket of the subject
SentToReceiver == \E k \in 1..Len(sent) : sent[k].to = receiver_sock

\* the number of round trips a driver makes: len(range(total))
RoundTrips == IF total > 0 THEN total ELSE 0

\* the direct driver has made every round trip: its lines went out in
\* index order before anything else, and every index past the warmup has
\* its sample
DirectComplete ==
  /\ Len(sent) >= RoundTrips
  /\ \A k \in 1..RoundTrips :
       sent[k] = [to |-> seq_dgram_sock, data |-> direct_line(k - 1)]
  /\ Len(direct) = Len(recorded.direct)
  /\ \A k \in 0..(RoundTrips - 1) :
       k >= args.warmup => \E n \in 1..Len(recorded.direct) : recorded.direct[n] = k

\* C14: the subject is spawned only when the listener is bound; a payload
\* is sent to the receiver socket only after the readiness wait returned
\* true; the benchmark sends its first bridged message only after the
\* direct driver made all its iterations + warmup round trips.
C14_PhaseOrder ==
  /\ [][(bridge.state = "none" /\ bridge'.state # "none") =>
         (listener = "bound" /\ seq_dgram_sock \in fs)]_vars
  /\ [](SentToReceiver => ready = "yes")
  /\ []((tool = "bench" /\ SentToReceiver) => DirectComplete)

\* C14 witness: the benchmark has sent its first bridged message after two
\* direct round trips, one of them a warmup
C14_Witness ==
  /\ tool = "bench"
  /\ pc = "bridge_recv"
  /\ i = 0
  /\ total = 2
  /\ recorded.direct = <<1>>
  /\ sent[3].to = receiver_sock

\* C15: whatever the subject does or leaves undone, the run reaches its
\* final outcome.
C15_RunTerminates == <>(pc = "done" /\ outcome # NoOutcome)

\* C15 witness: a run has ended whose subject never created its receiver
\* socket and was still running after both termination requests
C15_Witness ==
  /\ pc = "done"
  /\ ready = "no"
  /\ bridge.state = "running"
  /\ bridge.sigterm
  /\ bridge.sigkill

\* the forced kill is sent in this step
KillSent == ~bridge.sigkill /\ bridge'.sigkill

\* C16: the forced kill is sent only to a subject that was sent the
\* graceful request and is still running when the grace period ends
\* without the subject exited and drained, and one bounded wait follows
\* it; past the finally block a subject still running has been sent both
\* requests; a run with a subject ends only through these steps.
C16_TerminationEscalates ==
  /\ [][KillSent =>
         /\ bridge.sigterm
         /\ bridge.state = "running"
         /\ pc = "communicate"
         /\ ~communicate_returns(bridge)
         /\ pc' = "communicate_killed"]_vars
  /\ [][(pc = "communicate_killed" /\ pc' # pc) => pc' \in {"close", "exit_with"}]_vars
  /\ [][(bridge.state # "none" /\ pc' # pc
           /\ pc' = (IF tool = "smoke" THEN "close" ELSE "exit_with")) =>
         pc \in {"communicate", "communicate_killed"}]_vars
  /\ []((pc \in {"communicate", "communicate_killed"} /\ bridge.state = "running") =>
         bridge.sigterm)
  /\ []((pc \in {"close", "exit_with", "done"} /\ bridge.state = "running") =>
         (bridge.sigterm /\ bridge.sigkill))
  /\ [](bridge.sigkill => bridge.sigterm)

\* C16 witness: a subject that ignored the graceful request was killed,
\* and the final wait reaped it
C16_Witness ==
  /\ pc = "done"
  /\ bridge.sigterm
  /\ bridge.sigkill
  /\ bridge.state = "reaped"
  /\ teardown_exc = NoOutcome

\* C17: once the run has ended, a listening socket that was created has
\* been closed.
C17_ListenerClosed ==
  (pc = "done" /\ listener # "none") => listener = "closed"

\* wait_for_socket returns in this step
WaitReturns == pc = "wait" /\ pc' # "wait"

\* C18: wait_for_socket returns True only in a step that polled the path
\* and found it, returns False otherwise, and returns True when the path
\* exists as the call starts, whatever the timeout.
C18_WaitForSocket ==
  [][WaitReturns =>
       /\ ready' \in {"yes", "no"}
       /\ ready' = "yes" => receiver_sock \in fs
       /\ (elapsed = 0 /\ receiver_sock \in fs) => ready' = "yes"]_vars

\* C19: the outcome a run reports is the outcome its body determined,
\* whatever happened during teardown.
C19_TeardownKeepsOutcome ==
  (pc = "done" /\ body # NoOutcome) => outcome = body

\* the elements of a command line
Elems(argv) == {argv[k] : k \in 1..Len(argv)}

\* C20: the subject is launched with the three socket-path arguments, and
\* with --verbose exactly when the harness was invoked with --verbose.
C20_SubjectArguments ==
  bridge.state # "none" =>
    /\ SubSeq(bridge.argv, 1, 6) =
         <<"--receiver-socket", receiver_sock, "--seq-dgram-socket", seq_dgram_sock,
           "--seq-stream-socket", seq_stream_sock>>
    /\ Elems(SubSeq(bridge.argv, 7, Len(bridge.argv))) \subseteq {"--verbose"}
    /\ ("--verbose" \in Elems(bridge.argv)) <=> args.verbose

====
